---- MODULE Spec2Model ----
(***************************************************************************)
(* Model of segment_audio.py (v7): the sliding-window clip cutter, the     *)
(* per-run overlap tracker, the index allocation by directory scan and     *)
(* the JSON metadata store, together with the interactive main() loop that *)
(* drives them.  Strings that the program splits on "_" are sequences of   *)
(* tokens; a token is either a word or a run of decimal digits.            *)
(***************************************************************************)
EXTENDS Integers, Sequences, FiniteSets, TLC

\* ---------- CONFIG ----------
SEG_LEN == 2000
STEP == 1500
BASE_OUT_DIR == << <<"audio">> >>

\* ---------- bounds of the model ----------
MaxRuns == 2
MaxParts == 2

\* ---------- Python values ----------
None == <<>>
Some(x) == <<x>>
IsNone(o) == o = <<>>
Val(o) == o[1]

PyNone == [t |-> "None"]
PyStr(s) == [t |-> "str", v |-> s]
PyNum(n) == [t |-> "num", v |-> n]

\* a token of a "_"-separated string: a word, or a run of decimal digits
W(s) == [s |-> s, d |-> <<>>]
D(digits) == [s |-> "", d |-> digits]

\* str.isdigit()
isdigit(tok) == tok.s = "" /\ tok.d # <<>>

RECURSIVE DigitsOf(_)
DigitsOf(n) == IF n < 10 THEN <<n>> ELSE Append(DigitsOf(n \div 10), n % 10)

\* f"{i:03d}"
Format03d(i) ==
    LET ds == DigitsOf(i)
    IN  IF Len(ds) >= 3 THEN D(ds)
        ELSE D([k \in 1..(3 - Len(ds)) |-> 0] \o ds)

RECURSIVE DigitsValue(_)
DigitsValue(ds) ==
    IF ds = <<>> THEN 0
    ELSE 10 * DigitsValue(SubSeq(ds, 1, Len(ds) - 1)) + ds[Len(ds)]

\* int(s) on a token: None stands for ValueError
int(tok) == IF isdigit(tok) THEN Some(DigitsValue(tok.d)) ELSE None

\* ---------- sources ----------
Comp(stem, suffix) == [stem |-> stem, suffix |-> suffix]

URL_SHORT == [scheme |-> "https", netloc |-> "youtu.be",
              path |-> << Comp("abc", "") >>, v |-> None]
URL_WATCH == [scheme |-> "https", netloc |-> "www.youtube.com",
              path |-> << Comp("watch", "") >>, v |-> Some("abc")]
LOCAL_FILE == [scheme |-> "", netloc |-> "",
               path |-> << Comp("rec", ".mp3") >>, v |-> None]

Sources == {URL_SHORT, URL_WATCH, LOCAL_FILE}

is_url(path) == path.scheme # "" /\ path.netloc # ""

extract_youtube_id(url) ==
    IF url.netloc \in {"youtu.be"}
    THEN url.path[Len(url.path)].stem
    ELSE IF url.netloc \in {"www.youtube.com", "youtube.com"}
         THEN IF \E i \in 1..Len(url.path) : url.path[i].stem = "watch"
              THEN IF IsNone(url.v) THEN "ytclip" ELSE Val(url.v)
              ELSE IF \E i \in 1..Len(url.path) : url.path[i].stem = "shorts"
                   THEN url.path[Len(url.path)].stem
                   ELSE "ytclip"
         ELSE "ytclip"

\* ---------- time arguments ----------
TimeMS(m, s) == [kind |-> "m.s", mins |-> m, secs |-> s]
TimeM(m) == [kind |-> "m", mins |-> m, secs |-> 0]
TimeBad == [kind |-> "bad", mins |-> 0, secs |-> 0]
TimeN == [kind |-> "n", mins |-> 0, secs |-> 0]

TimeArgs == {TimeBad, TimeN, TimeM(0), TimeMS(0, 3), TimeMS(0, 6)}

\* the start and end given on the command line: "0.-3" is 0 minutes and
\* int("-3") seconds
ArgvTimes == (TimeArgs \X TimeArgs) \cup {<<TimeMS(0, -3), TimeM(0)>>}

parse_time_arg(arg) ==
    IF arg.kind = "m.s" THEN Some((arg.mins * 60 + arg.secs) * 1000)
    ELSE IF arg.kind = "m" THEN Some((arg.mins * 60) * 1000)
    ELSE None

\* a test on closed intervals: touching ranges count as overlapping
is_overlap_Closed(new_start, new_end, parts) ==
    \E i \in 1..Len(parts) :
        ~(new_end < parts[i][1] \/ new_start > parts[i][2])

is_overlap(new_start, new_end, parts) ==
    \E i \in 1..Len(parts) :
        ~(new_end <= parts[i][1] \/ new_start >= parts[i][2])

\* ---------- windowing ----------
\* Python range(start, stop, step) for step > 0
RECURSIVE range(_, _, _)
range(start, stop, step) ==
    IF start >= stop THEN <<>>
    ELSE <<start>> \o range(start + step, stop, step)

Min(a, b) == IF a <= b THEN a ELSE b

\* the loop of segment_wav under a configuration (seg_len, step): the clips
\* cut, in order, each with its index and the slice audio[start:start+seg_len]
Windows(audio_len, start_ms, end_ms, start_index, seg_len, step) ==
    LET e == IF IsNone(end_ms) \/ Val(end_ms) > audio_len
             THEN audio_len ELSE Val(end_ms)
        starts == range(start_ms, e - seg_len, step)
    IN  [k \in 1..Len(starts) |->
            [index |-> start_index + (k - 1),
             start |-> starts[k],
             end   |-> Min(starts[k] + seg_len, audio_len)]]

ClipName(prefix, i) == [toks |-> Append(prefix, Format03d(i)), suffix |-> ".wav"]

\* segment_wav: the paths written, in order
segment_wav(audio_len, dir, prefix, start_ms, end_ms, start_index) ==
    LET ws == Windows(audio_len, start_ms, end_ms, start_index, SEG_LEN, STEP)
    IN  [k \in 1..Len(ws) |-> [dir |-> dir, name |-> ClipName(prefix, ws[k].index)]]

\* ---------- index allocation by directory scan ----------
\* out_dir.glob(f"{prefix_base}_*.wav")
GlobMatch(fs, dir, prefix) ==
    {f \in fs : /\ f.dir = dir
                /\ f.name.suffix = ".wav"
                /\ Len(f.name.toks) > Len(prefix)
                /\ SubSeq(f.name.toks, 1, Len(prefix)) = prefix}

\* f.stem.split('_')[-1]
LastToken(f) == f.name.toks[Len(f.name.toks)]

SetMax(S) == CHOOSE m \in S : \A x \in S : x <= m

\* numbering by the count of the existing files instead of their maximum
NextIndex_Count(fs, dir, prefix) ==
    Some(Cardinality(GlobMatch(fs, dir, prefix)))

\* lines 239-244; None stands for the ValueError of int()
NextIndex(fs, dir, prefix) ==
    LET existing_files == GlobMatch(fs, dir, prefix)
    IN  IF existing_files # {}
        THEN IF \E f \in existing_files : IsNone(int(LastToken(f)))
             THEN None
             ELSE Some(SetMax({Val(int(LastToken(f))) : f \in existing_files}) + 1)
        ELSE Some(0)

\* ---------- metadata store ----------
KeyOrder == <<"filename", "binary_label", "motor_label", "source",
              "youtube_url", "duration", "quality", "subtype">>

\* json.dump of one value
dump_value(pv) ==
    IF pv.t = "None" THEN [j |-> "null"]
    ELSE IF pv.t = "str" THEN [j |-> "string", v |-> pv.v]
    ELSE [j |-> "number", v |-> pv.v]

\* json.load of one value
load_value(jv) ==
    IF jv.j = "null" THEN PyNone
    ELSE IF jv.j = "string" THEN PyStr(jv.v)
    ELSE PyNum(jv.v)

\* a writer that leaves out the members whose value is None
dump_object_OmitNull(d) ==
    LET keys == SelectSeq(KeyOrder, LAMBDA k : k \in DOMAIN d /\ d[k] # PyNone)
    IN  [i \in 1..Len(keys) |-> [k |-> keys[i], v |-> dump_value(d[keys[i]])]]

\* a dict is written as its members, in key order
dump_object(d) ==
    LET keys == SelectSeq(KeyOrder, LAMBDA k : k \in DOMAIN d)
    IN  [i \in 1..Len(keys) |-> [k |-> keys[i], v |-> dump_value(d[keys[i]])]]

load_object(members) ==
    [k \in {members[i].k : i \in 1..Len(members)} |->
        load_value(members[CHOOSE i \in 1..Len(members) : members[i].k = k].v)]

json_dump(data) ==
    [kind |-> "array", text |-> [i \in 1..Len(data) |-> dump_object(data[i])]]

json_load(text) == [i \in 1..Len(text) |-> load_object(text[i])]

MissingFile == [kind |-> "missing", text |-> <<>>]

PyList(items) == [t |-> "list", v |-> items]

\* lines 105-113: the value returned; a JSON text that is not an array is
\* loaded without a JSONDecodeError and returned as it is
LoadedValue(mf) ==
    IF mf.kind = "array" THEN PyList(json_load(mf.text))
    ELSE IF mf.kind = "value" THEN load_value(mf.text)
    ELSE PyList(<<>>)

\* iterating the value or calling .extend on it raises unless it is a list
IsList(pv) == pv.t = "list"

\* the records returned, when a list is returned
safe_load_metadata(mf) == LoadedValue(mf).v

update_metadata(mf, new_entries) ==
    json_dump(safe_load_metadata(mf) \o new_entries)

\* d.get(key)
Get(d, key) == IF key \in DOMAIN d THEN d[key] ELSE PyNone

\* a filter by the video id in the filename instead of the URL of the record
RECURSIVE OtherEntries_ByVideoId(_, _)
OtherEntries_ByVideoId(data, url) ==
    IF data = <<>> THEN <<>>
    ELSE LET d == Head(data)
         IN  IF d.filename.v.toks[1] # W(extract_youtube_id(url))
             THEN <<d>> \o OtherEntries_ByVideoId(Tail(data), url)
             ELSE OtherEntries_ByVideoId(Tail(data), url)

\* [d for d in data if d.get("youtube_url") != url]
RECURSIVE OtherEntries(_, _)
OtherEntries(data, url) ==
    IF data = <<>> THEN <<>>
    ELSE LET d == Head(data)
         IN  IF Get(d, "youtube_url") # PyStr(url)
             THEN <<d>> \o OtherEntries(Tail(data), url)
             ELSE OtherEntries(Tail(data), url)

\* any(d.get("youtube_url") == src for d in metadata)
has_source(metadata, url) ==
    \E i \in 1..Len(metadata) : Get(metadata[i], "youtube_url") = PyStr(url)

\* the pairs <<p, s>> of stems of the model where p is a proper prefix of s
ProperPrefixes == {<<"abc", "abcd">>}

\* str.startswith over the stems of the model
startswith(s, p) == s = p \/ <<p, s>> \in ProperPrefixes

\* folder.name.startswith(vid_id); vid_id holds no "_" here, so the test is
\* decided by the first piece of the name
NameStartsWith(name, vid_id) == startswith(name.toks[1].s, vid_id)

\* delete_existing_entries: the files left (failed names an unlink that raised)
FilesAfterDelete(fs, url, failed) ==
    {f \in fs : ~NameStartsWith(f.name, extract_youtube_id(url)) \/ f \in failed}

\* a rewrite that opens META_FILE for appending: the new array follows the
\* text that is already there
MetaAfterDelete_AppendMode(mf, url) ==
    IF mf.kind \in {"array", "corrupt"}
    THEN [kind |-> "corrupt", text |-> <<>>]
    ELSE json_dump(OtherEntries(safe_load_metadata(mf), url))

MetaAfterDelete(mf, url) == json_dump(OtherEntries(safe_load_metadata(mf), url))

\* ---------- inputs of the model ----------
\* the length in ms of the recording behind each source
AudioLength(s) == IF s = URL_WATCH THEN 5000 ELSE 3500

MotorInputs == {D(<<4>>), W("unknown")}
Answers == {"y", "n"}
DroneAnswers == {"y", "n", "maybe"}
QualityInputs == {"3", "0"}
SubtypeInputs == {"w", "z"}

QualityOf(q) == IF q = "1" THEN 1 ELSE IF q = "2" THEN 2 ELSE IF q = "3" THEN 3
                ELSE IF q = "4" THEN 4 ELSE 5

options == [a |-> "airplanes", b |-> "birds", ca |-> "cars", cr |-> "crowd",
            e |-> "electronics", m |-> "motors", r |-> "random", w |-> "wind"]

\* ---------- state ----------
VARIABLES
    files,               \* the .wav files under BASE_OUT_DIR: [dir, name]
    meta_file,           \* content of META_FILE
    runs,                \* invocations of main() so far
    pc,                  \* position of main()
    src, source_type,
    start_ms, end_ms,
    processed_parts,
    wav_len,             \* len(AudioSegment.from_wav(wav_path))
    motor_label, out_dir, prefix_base,
    part_start, part_end, process_whole_video,
    start_index,
    seg_paths, entries,
    declined,            \* the driver has declined to supply another range
    supplied,            \* the ranges the driver has supplied in this run
    rejected,            \* the last range refused as overlapping in this run
    w_in, w_out,         \* a call of the windower alone: arguments, result
    before,              \* the store as it was before the last store operation
    files_before,        \* the files as they were before the last store operation
    ops,                 \* the store operations so far: [op, url, failed]
    ov_in, ov_out        \* a call of is_overlap alone: arguments, result

locals == <<src, source_type, start_ms, end_ms, processed_parts, wav_len,
            motor_label, out_dir, prefix_base, part_start, part_end,
            process_whole_video, start_index, seg_paths, entries>>

ghosts == <<declined, supplied, rejected>>

vars == <<files, meta_file, runs, pc, src, source_type, start_ms, end_ms,
          processed_parts, wav_len, motor_label, out_dir, prefix_base,
          part_start, part_end, process_whole_video, start_index, seg_paths,
          entries, declined, supplied, rejected, w_in, w_out, before, files_before, ops, ov_in, ov_out>>

NoOverlapCall == [new_start |-> 0, new_end |-> 0, parts |-> <<>>]

NoCall == [audio_len |-> 0, start_ms |-> 0, end_ms |-> None, start_index |-> 0,
           seg_len |-> SEG_LEN, step |-> STEP]

\* no run: the variables of main() hold nothing
NoRun ==
    /\ src = LOCAL_FILE /\ source_type = "local"
    /\ start_ms = None /\ end_ms = None
    /\ processed_parts = <<>>
    /\ wav_len = 0
    /\ motor_label = <<>> /\ out_dir = BASE_OUT_DIR /\ prefix_base = <<>>
    /\ part_start = 0 /\ part_end = None /\ process_whole_video = FALSE
    /\ start_index = 0
    /\ seg_paths = <<>> /\ entries = <<>>
    /\ declined = FALSE /\ supplied = {} /\ rejected = None
    /\ ov_in = NoOverlapCall /\ ov_out = None

Init ==
    /\ files = {}
    /\ meta_file = MissingFile
    /\ runs = 0
    /\ pc = "idle"
    /\ NoRun
    /\ w_in = NoCall /\ w_out = <<>>
    /\ before = MissingFile /\ files_before = {} /\ ops = <<>>

Running == pc \notin {"idle", "done", "aborted"}

\* the process ends: its variables are gone
ExitWith(how, decl) ==
    /\ pc' = how
    /\ src' = LOCAL_FILE /\ source_type' = "local"
    /\ start_ms' = None /\ end_ms' = None
    /\ processed_parts' = <<>>
    /\ wav_len' = 0
    /\ motor_label' = <<>> /\ out_dir' = BASE_OUT_DIR /\ prefix_base' = <<>>
    /\ part_start' = 0 /\ part_end' = None /\ process_whole_video' = FALSE
    /\ start_index' = 0
    /\ seg_paths' = <<>> /\ entries' = <<>>
    /\ declined' = decl /\ supplied' = {} /\ rejected' = None

Exit(how) == ExitWith(how, FALSE)

\* lines 158-183: the arguments, the source type and the already-processed test
StartRun ==
    /\ ~Running
    /\ runs < MaxRuns
    /\ runs' = runs + 1
    /\ \E s \in Sources, with_times \in BOOLEAN, argv \in ArgvTimes :
        LET a1 == argv[1]
            a2 == argv[2]
            t1 == parse_time_arg(a1)
            t2 == parse_time_arg(a2)
            bad == with_times /\ (IsNone(t1) \/ IsNone(t2) \/ Val(t1) >= Val(t2))
        IN  /\ with_times \/ (a1 = TimeBad /\ a2 = TimeBad)
            /\ IF bad
               THEN Exit("done")
               ELSE IF is_url(s) /\ ~IsList(LoadedValue(meta_file))
               THEN Exit("aborted")
               ELSE /\ src' = s
                    /\ source_type' = IF is_url(s) THEN "youtube" ELSE "local"
                    /\ start_ms' = IF with_times THEN t1 ELSE None
                    /\ end_ms' = IF with_times THEN t2 ELSE None
                    /\ supplied' = IF with_times THEN {<<t1, t2>>} ELSE {<<None, None>>}
                    /\ pc' = IF is_url(s) /\ has_source(safe_load_metadata(meta_file), s)
                             THEN "url_check"
                             ELSE "prepare"
                    /\ declined' = FALSE
                    /\ UNCHANGED <<processed_parts, wav_len, motor_label, out_dir,
                                   prefix_base, part_start, part_end,
                                   process_whole_video, start_index, seg_paths,
                                   entries, rejected>>
    /\ UNCHANGED <<files, meta_file, w_in, w_out, before, files_before, ops, ov_in, ov_out>>

\* a delete that stops at the first unlink that raises, before the rewrite
delete_existing_entries_StopAtFailure(mf, fs, url, failed) ==
    IF failed = {}
    THEN [meta_file |-> MetaAfterDelete(mf, url),
          files |-> FilesAfterDelete(fs, url, failed)]
    ELSE [meta_file |-> mf, files |-> fs]

\* delete_existing_entries(url), lines 122-134: the store and the files after it;
\* failed holds the files whose unlink raised
delete_existing_entries(mf, fs, url, failed) ==
    [meta_file |-> MetaAfterDelete(mf, url),
     files |-> FilesAfterDelete(fs, url, failed)]

\* lines 184-189: delete the previous segments and reprocess, or skip; every
\* unlink succeeds here (StoreDelete draws the unlinks that raise)
UrlCheck ==
    /\ pc = "url_check"
    /\ \E ans \in Answers :
        IF ans = "y"
        THEN IF ~IsList(LoadedValue(meta_file))
             THEN /\ Exit("aborted")
                  /\ UNCHANGED <<files, meta_file>>
             ELSE LET after == delete_existing_entries(meta_file, files, src, {})
                  IN  /\ files' = after.files
                      /\ meta_file' = after.meta_file
                      /\ pc' = "prepare"
                      /\ UNCHANGED <<locals, ghosts>>
        ELSE /\ Exit("done")
             /\ UNCHANGED <<files, meta_file>>
    /\ UNCHANGED <<runs, w_in, w_out, before, files_before, ops, ov_in, ov_out>>

\* f"{motor_count}_motors"
Motors(count) == <<count, W("motors")>>

\* lines 197 and 206: the motor label of the records
MotorLabelOf(stype, motor_count) ==
    IF stype = "youtube"
    THEN IF isdigit(motor_count) THEN Motors(motor_count) ELSE <<W("unknown")>>
    ELSE <<motor_count>>

\* lines 198 and 207
OutDirOf(stype, motor_count) ==
    IF stype = "youtube"
    THEN Append(BASE_OUT_DIR, MotorLabelOf(stype, motor_count))
    ELSE Append(BASE_OUT_DIR, IF isdigit(motor_count) THEN Motors(motor_count)
                              ELSE <<W("no"), W("label")>>)

\* lines 199 and 208
PrefixOf(stype, source, motor_count) ==
    IF stype = "youtube"
    THEN <<W(extract_youtube_id(source))>> \o MotorLabelOf(stype, motor_count)
    ELSE <<W(source.path[Len(source.path)].stem)>> \o MotorLabelOf(stype, motor_count)

\* lines 191-210: the WAV, the motor count, the output directory and the prefix
PrepareWav ==
    /\ pc = "prepare"
    /\ \E motor_count \in MotorInputs, exists \in BOOLEAN :
        IF source_type = "youtube"
        THEN /\ exists
             /\ wav_len' = AudioLength(src)
             /\ motor_label' = MotorLabelOf(source_type, motor_count)
             /\ out_dir' = OutDirOf(source_type, motor_count)
             /\ prefix_base' = PrefixOf(source_type, src, motor_count)
             /\ pc' = "begin_part"
             /\ UNCHANGED <<src, source_type, start_ms, end_ms, processed_parts,
                            part_start, part_end, process_whole_video, start_index,
                            seg_paths, entries, ghosts>>
        ELSE IF ~exists
             THEN /\ motor_count = CHOOSE c \in MotorInputs : TRUE
                  /\ Exit("done")
             ELSE /\ wav_len' = AudioLength(src)
                  /\ motor_label' = MotorLabelOf(source_type, motor_count)
                  /\ out_dir' = OutDirOf(source_type, motor_count)
                  /\ prefix_base' = PrefixOf(source_type, src, motor_count)
                  /\ pc' = "begin_part"
                  /\ UNCHANGED <<src, source_type, start_ms, end_ms, processed_parts,
                                 part_start, part_end, process_whole_video,
                                 start_index, seg_paths, entries, ghosts>>
    /\ UNCHANGED <<files, meta_file, runs, w_in, w_out, before, files_before, ops, ov_in, ov_out>>

SeqToSet(s) == {s[i] : i \in 1..Len(s)}

\* line 249: the part as registered
RegisteredPart(ps, pe, audio_len, nseg) ==
    <<ps, IF IsNone(pe) \/ pe = Some(0) THEN audio_len ELSE Val(pe), nseg>>

\* lines 213-249: the part to process, the test against the earlier parts, the
\* start index, the clips
ProcessPart ==
    /\ pc = "begin_part"
    /\ LET whole == IsNone(start_ms) /\ IsNone(end_ms)
       IN
       \E s_new \in TimeArgs, e_new \in TimeArgs :
         LET again == ~whole /\ is_overlap(Val(start_ms), Val(end_ms), processed_parts)
             s_ms == parse_time_arg(s_new)
             e_ms == parse_time_arg(e_new)
             ps == IF whole THEN 0 ELSE IF again THEN Val(s_ms) ELSE Val(start_ms)
             pe == IF whole THEN None ELSE IF again THEN e_ms ELSE end_ms
             n == NextIndex(files, out_dir, prefix_base)
             paths == segment_wav(wav_len, out_dir, prefix_base, ps, pe, Val(n))
         IN  /\ IF again
                THEN /\ ~IsNone(s_ms) /\ ~IsNone(e_ms)
                     /\ Val(s_ms) < Val(e_ms)
                     /\ ~is_overlap(Val(s_ms), Val(e_ms), processed_parts)
                ELSE s_new = TimeBad /\ e_new = TimeBad
             /\ IF IsNone(n)
                THEN /\ Exit("aborted")
                     /\ files' = files
                ELSE /\ process_whole_video' = whole
                     /\ part_start' = ps
                     /\ part_end' = pe
                     /\ supplied' = IF again THEN supplied \cup {<<s_ms, e_ms>>}
                                    ELSE supplied
                     /\ start_index' = Val(n)
                     /\ seg_paths' = paths
                     /\ files' = files \cup SeqToSet(paths)
                     /\ entries' = <<>>
                     /\ processed_parts' =
                          Append(processed_parts,
                                 RegisteredPart(ps, pe, wav_len, Len(paths)))
                     /\ pc' = IF paths = <<>> THEN "append" ELSE "label"
                     /\ UNCHANGED <<src, source_type, start_ms, end_ms, wav_len,
                                    motor_label, out_dir, prefix_base, declined,
                                    rejected>>
    /\ UNCHANGED <<meta_file, runs, w_in, w_out, before, files_before, ops, ov_in, ov_out>>

NotADrone(subtype) ==
    BASE_OUT_DIR \o << <<W("not"), W("a"), W("drone")>>, <<W(subtype)>> >>

\* lines 295-307
Entry(name, binary_label, motor_lbl, quality, subtype, stype, source) ==
    LET entry == [filename |-> PyStr(name),
                  binary_label |-> PyStr(binary_label),
                  motor_label |-> motor_lbl,
                  source |-> PyStr(stype),
                  youtube_url |-> IF stype = "youtube" THEN PyStr(source) ELSE PyNone,
                  duration |-> PyNum(SEG_LEN \div 1000)]
        with_quality == IF quality # PyNone
                        THEN entry @@ ("quality" :> quality) ELSE entry
    IN  IF binary_label = "no_drone"
        THEN with_quality @@ ("subtype" :> subtype) ELSE with_quality

\* a no_drone branch that keeps the quality that was typed
Labelled_KeepQuality(p, drone_present, q, choice, motor, stype, source) ==
    IF drone_present = "y"
    THEN [path |-> p,
          entry |-> Entry(p.name, "drone", PyStr(motor), PyNum(QualityOf(q)),
                          PyNone, stype, source)]
    ELSE [path |-> [dir |-> NotADrone(options[choice]), name |-> p.name],
          entry |-> Entry(p.name, "no_drone", PyNone, PyNum(QualityOf(q)),
                          PyStr(options[choice]), stype, source)]

\* lines 263-307: the record of clip p and the place it ends up in
Labelled(p, drone_present, q, choice, motor, stype, source) ==
    IF drone_present = "y"
    THEN [path |-> p,
          entry |-> Entry(p.name, "drone", PyStr(motor), PyNum(QualityOf(q)),
                          PyNone, stype, source)]
    ELSE [path |-> [dir |-> NotADrone(options[choice]), name |-> p.name],
          entry |-> Entry(p.name, "no_drone", PyNone, PyNone,
                          PyStr(options[choice]), stype, source)]

\* lines 253-307: the labels of one clip; an answer that is refused is asked again
LabelSegment ==
    /\ pc = "label"
    /\ LET p == seg_paths[Len(entries) + 1]
       IN  \E drone_present \in DroneAnswers, q \in QualityInputs, choice \in SubtypeInputs :
              /\ drone_present \in {"y", "n"}
              /\ IF drone_present = "y"
                 THEN /\ q \in {"1", "2", "3", "4", "5"}
                      /\ choice = CHOOSE c \in SubtypeInputs : TRUE
                 ELSE /\ choice \in DOMAIN options
                      /\ q = CHOOSE c \in QualityInputs : TRUE
              /\ LET l == Labelled(p, drone_present, q, choice, motor_label,
                                   source_type, src)
                 IN  /\ files' = (files \ {p}) \cup {l.path}
                     /\ entries' = Append(entries, l.entry)
    /\ pc' = IF Len(entries') = Len(seg_paths) THEN "append" ELSE "label"
    /\ UNCHANGED <<meta_file, runs, src, source_type, start_ms, end_ms,
                   processed_parts, wav_len, motor_label, out_dir, prefix_base,
                   part_start, part_end, process_whole_video, start_index,
                   seg_paths, ghosts, w_in, w_out, before, files_before, ops, ov_in, ov_out>>

\* lines 309-313
AppendMetadata ==
    /\ pc = "append"
    /\ IF ~IsList(LoadedValue(meta_file))
       THEN /\ meta_file' = meta_file
            /\ Exit("aborted")
       ELSE /\ meta_file' = update_metadata(meta_file, entries)
            /\ IF process_whole_video \/ source_type # "youtube"
               THEN Exit("done")
               ELSE pc' = "ask_another" /\ UNCHANGED <<locals, ghosts>>
    /\ UNCHANGED <<files, runs, w_in, w_out, before, files_before, ops, ov_in, ov_out>>

\* lines 315-318
AskAnother ==
    /\ pc = "ask_another"
    /\ \E ans \in Answers :
        IF ans # "y"
        THEN ExitWith("done", TRUE)
        ELSE /\ Len(processed_parts) < MaxParts
             /\ pc' = "new_range"
             /\ UNCHANGED <<locals, ghosts>>
    /\ UNCHANGED <<files, meta_file, runs, w_in, w_out, before, files_before, ops, ov_in, ov_out>>

\* lines 329-345
NewRange ==
    /\ pc = "new_range"
    /\ \E s_new \in TimeArgs, e_new \in TimeArgs :
        IF s_new = TimeN
        THEN /\ e_new = TimeN
             /\ start_ms' = None /\ end_ms' = None
             /\ declined' = TRUE
             /\ pc' = "begin_part"
             /\ UNCHANGED <<supplied, rejected>>
        ELSE LET s_ms == parse_time_arg(s_new)
                 e_ms == parse_time_arg(e_new)
             IN  /\ ~IsNone(s_ms) /\ ~IsNone(e_ms)
                 /\ Val(s_ms) < Val(e_ms)
                 /\ IF is_overlap(Val(s_ms), Val(e_ms), processed_parts)
                    THEN /\ rejected' = Some(<<Val(s_ms), Val(e_ms)>>)
                         /\ UNCHANGED <<start_ms, end_ms, supplied, declined, pc>>
                    ELSE /\ start_ms' = s_ms /\ end_ms' = e_ms
                         /\ supplied' = supplied \cup {<<s_ms, e_ms>>}
                         /\ pc' = "begin_part"
                         /\ UNCHANGED <<rejected, declined>>
    /\ UNCHANGED <<files, meta_file, runs, src, source_type, processed_parts,
                   wav_len, motor_label, out_dir, prefix_base, part_start, part_end,
                   process_whole_video, start_index, seg_paths, entries, w_in, w_out, before, files_before, ops, ov_in, ov_out>>

\* the run is killed between two steps
Abort ==
    /\ Running
    /\ Exit("aborted")
    /\ UNCHANGED <<files, meta_file, runs, w_in, w_out, before, files_before, ops, ov_in, ov_out>>

Next ==
    \/ StartRun
    \/ UrlCheck
    \/ PrepareWav
    \/ ProcessPart
    \/ LabelSegment
    \/ AppendMetadata
    \/ AskAnother
    \/ NewRange
    \/ Abort

Spec == Init /\ [][Next]_vars

\* ---------- the windower alone ----------
WMaxK == 10
WTimes == {k * 500 : k \in 0..WMaxK}

InitWindow ==
    /\ files = {} /\ meta_file = MissingFile /\ before = MissingFile
    /\ files_before = {} /\ ops = <<>>
    /\ runs = 0 /\ pc = "idle"
    /\ NoRun
    /\ w_out = <<>>
    /\ w_in \in [audio_len : WTimes, start_ms : WTimes,
                 end_ms : {None} \cup {Some(x) : x \in WTimes},
                 start_index : {0, 7},
                 seg_len : {SEG_LEN}, step : {STEP, SEG_LEN}]

\* one call of the loop of segment_wav
WindowCall ==
    /\ pc = "idle"
    /\ pc' = "windowed"
    /\ w_out' = Windows(w_in.audio_len, w_in.start_ms, w_in.end_ms,
                        w_in.start_index, w_in.seg_len, w_in.step)
    /\ UNCHANGED <<files, meta_file, runs, locals, ghosts, w_in, before, files_before, ops, ov_in, ov_out>>

NextWindow == WindowCall

SpecWindow == InitWindow /\ [][NextWindow]_vars

\* ---------- the index allocation alone ----------
MaxIdx == 3

IndexDir == OutDirOf("local", D(<<4>>))
IndexPrefix == PrefixOf("local", LOCAL_FILE, D(<<4>>))

\* a file that the glob matches and whose last piece is not a number
MalformedClip ==
    [dir |-> IndexDir,
     name |-> [toks |-> Append(IndexPrefix, W("abc")), suffix |-> ".wav"]]

\* what the output directory and its neighbours may hold: clips of the prefix,
\* a clip whose longer prefix the glob matches too, a clip of another prefix,
\* a clip of the prefix that was moved away, and a file of the prefix that is
\* not a clip
IndexCandidates ==
    {[dir |-> IndexDir, name |-> ClipName(IndexPrefix, i)] : i \in 0..MaxIdx}
    \cup {[dir |-> IndexDir,
           name |-> ClipName(Append(IndexPrefix, W("motors")), MaxIdx + 2)],
          [dir |-> IndexDir,
           name |-> ClipName(<<W("xyz"), D(<<4>>)>>, MaxIdx + 4)],
          [dir |-> NotADrone("wind"), name |-> ClipName(IndexPrefix, MaxIdx + 6)],
          MalformedClip}

InitIndex ==
    /\ files \in SUBSET IndexCandidates
    /\ meta_file = MissingFile /\ before = MissingFile
    /\ files_before = {} /\ ops = <<>>
    /\ ov_in = NoOverlapCall /\ ov_out = None
    /\ runs = 0 /\ pc = "alloc"
    /\ src = LOCAL_FILE /\ source_type = "local"
    /\ start_ms = None /\ end_ms = None
    /\ processed_parts = <<>>
    /\ wav_len = 0
    /\ motor_label = MotorLabelOf("local", D(<<4>>))
    /\ out_dir = IndexDir /\ prefix_base = IndexPrefix
    /\ part_start = 0 /\ part_end = None /\ process_whole_video = FALSE
    /\ start_index = 0
    /\ seg_paths = <<>> /\ entries = <<>>
    /\ declined = FALSE /\ supplied = {} /\ rejected = None
    /\ w_in = NoCall /\ w_out = <<>>

\* lines 238-244 alone
AllocCall ==
    /\ pc = "alloc"
    /\ LET n == NextIndex(files, out_dir, prefix_base)
       IN  IF IsNone(n)
           THEN pc' = "aborted" /\ start_index' = start_index
           ELSE pc' = "allocated" /\ start_index' = Val(n)
    /\ UNCHANGED <<files, meta_file, runs, src, source_type, start_ms, end_ms,
                   processed_parts, wav_len, motor_label, out_dir, prefix_base,
                   part_start, part_end, process_whole_video, seg_paths, entries,
                   ghosts, w_in, w_out, before, files_before, ops, ov_in, ov_out>>

NextIndexOnly == AllocCall

SpecIndex == InitIndex /\ [][NextIndexOnly]_vars

\* ---------- the labelling of one batch alone ----------
MaxClips == 3

\* the length of a recording that is cut into n clips
LengthFor(n) == SEG_LEN + n * STEP

\* the state of main() at line 252, the whole recording cut into 1..MaxClips
\* clips in an empty output directory
InitLabel ==
    /\ meta_file = MissingFile /\ before = MissingFile
    /\ files_before = {} /\ ops = <<>>
    /\ runs = 1 /\ pc = "label"
    /\ start_ms = None /\ end_ms = None
    /\ part_start = 0 /\ part_end = None /\ process_whole_video = TRUE
    /\ start_index = 0
    /\ entries = <<>>
    /\ declined = FALSE /\ supplied = {<<None, None>>} /\ rejected = None
    /\ w_in = NoCall /\ w_out = <<>>
    /\ ov_in = NoOverlapCall /\ ov_out = None
    /\ \E s \in Sources, motor_count \in MotorInputs, n \in 1..MaxClips :
        LET stype == IF is_url(s) THEN "youtube" ELSE "local"
            dir == OutDirOf(stype, motor_count)
            prefix == PrefixOf(stype, s, motor_count)
            paths == segment_wav(LengthFor(n), dir, prefix, 0, None, 0)
        IN  /\ src = s /\ source_type = stype
            /\ wav_len = LengthFor(n)
            /\ motor_label = MotorLabelOf(stype, motor_count)
            /\ out_dir = dir /\ prefix_base = prefix
            /\ seg_paths = paths
            /\ files = SeqToSet(paths)
            /\ processed_parts = <<RegisteredPart(0, None, LengthFor(n), Len(paths))>>

NextLabel == LabelSegment \/ AppendMetadata

SpecLabel == InitLabel /\ [][NextLabel]_vars

\* ---------- is_overlap alone ----------
MaxT == 4

OTimes == {k * 500 : k \in 0..MaxT}

\* the entries of processed_parts: (start, end, number of clips)
OParts == {p \in OTimes \X OTimes \X {0} : p[1] < p[2]}

InitOverlap ==
    /\ files = {} /\ meta_file = MissingFile /\ before = MissingFile
    /\ files_before = {} /\ ops = <<>>
    /\ runs = 0 /\ pc = "idle"
    /\ src = LOCAL_FILE /\ source_type = "local"
    /\ start_ms = None /\ end_ms = None
    /\ processed_parts = <<>>
    /\ wav_len = 0
    /\ motor_label = <<>> /\ out_dir = BASE_OUT_DIR /\ prefix_base = <<>>
    /\ part_start = 0 /\ part_end = None /\ process_whole_video = FALSE
    /\ start_index = 0
    /\ seg_paths = <<>> /\ entries = <<>>
    /\ declined = FALSE /\ supplied = {} /\ rejected = None
    /\ w_in = NoCall /\ w_out = <<>>
    /\ ov_out = None
    /\ \E r \in OParts, ps \in {<<>>} \cup {<<p>> : p \in OParts}
                                 \cup {<<p, q>> : p, q \in OParts} :
          ov_in = [new_start |-> r[1], new_end |-> r[2], parts |-> ps]

\* one call of is_overlap
OverlapCall ==
    /\ pc = "idle"
    /\ pc' = "overlap_checked"
    /\ ov_out' = Some(is_overlap(ov_in.new_start, ov_in.new_end, ov_in.parts))
    /\ UNCHANGED <<files, meta_file, runs, locals, ghosts, w_in, w_out, before,
                   files_before, ops, ov_in>>

NextOverlap == OverlapCall

SpecOverlap == InitOverlap /\ [][NextOverlap]_vars

\* ---------- the metadata store alone ----------
MaxOps == 4

CorruptFile == [kind |-> "corrupt", text |-> <<>>]
EmptyFile == [kind |-> "empty", text |-> <<>>]
\* a store that holds the JSON text null
NullFile == [kind |-> "value", text |-> [j |-> "null"]]

\* a local recording whose stem begins with the video id of the URLs
LOCAL_ABCD == [scheme |-> "", netloc |-> "",
               path |-> << Comp("abcd", ".wav") >>, v |-> None]

\* the clips of one part of a source, cut from index first and labelled
RECURSIVE Batch(_, _, _, _)
Batch(source, motor_count, first, answers) ==
    IF answers = <<>> THEN <<>>
    ELSE LET stype == IF is_url(source) THEN "youtube" ELSE "local"
             p == [dir |-> OutDirOf(stype, motor_count),
                   name |-> ClipName(PrefixOf(stype, source, motor_count), first)]
             a == Head(answers)
         IN  <<Labelled(p, a[1], a[2], a[3], MotorLabelOf(stype, motor_count),
                        stype, source)>>
             \o Batch(source, motor_count, first + 1, Tail(answers))

Batches ==
    {Batch(URL_SHORT, D(<<4>>), 0, << <<"y", "3", "w">> >>),
     Batch(URL_WATCH, W("unknown"), 0, << <<"n", "3", "w">>, <<"y", "5", "w">> >>),
     Batch(LOCAL_FILE, D(<<4>>), 0, << <<"y", "3", "w">>, <<"n", "3", "b">> >>),
     Batch(URL_SHORT, D(<<4>>), 1, << <<"n", "3", "w">> >>),
     Batch(LOCAL_ABCD, D(<<4>>), 0, << <<"y", "3", "w">> >>)}

InitStore ==
    /\ files = {}
    /\ meta_file \in {MissingFile, EmptyFile, CorruptFile, NullFile}
    /\ before = meta_file /\ files_before = {} /\ ops = <<>>
    /\ runs = 0 /\ pc = "store"
    /\ NoRun
    /\ w_in = NoCall /\ w_out = <<>>

StoreOp(op, url, failed) == [op |-> op, url |-> url, failed |-> failed]

\* lines 179-183 alone: the store is loaded and searched for the source
StoreCheck ==
    /\ runs < MaxOps
    /\ runs' = runs + 1
    /\ \E s \in Sources :
        /\ src' = s
        /\ ops' = Append(ops, StoreOp("check", s, {}))
        /\ pc' = IF is_url(s) /\ ~IsList(LoadedValue(meta_file)) THEN "raised"
                 ELSE IF is_url(s) /\ has_source(safe_load_metadata(meta_file), s)
                      THEN "url_check"
                      ELSE "prepare"
    /\ before' = meta_file /\ files_before' = files
    /\ UNCHANGED <<files, meta_file, source_type, start_ms, end_ms, processed_parts,
                   wav_len, motor_label, out_dir, prefix_base, part_start, part_end,
                   process_whole_video, start_index, seg_paths, entries, ghosts,
                   w_in, w_out, ov_in, ov_out>>

\* update_metadata(entries) for the clips of one part
StoreAppend ==
    /\ runs < MaxOps
    /\ runs' = runs + 1
    /\ \E b \in Batches :
        LET new_entries == [i \in 1..Len(b) |-> b[i].entry]
        IN  /\ \A i \in 1..Len(b) : b[i].path \notin files
            /\ entries' = new_entries
            /\ files' = files \cup {b[i].path : i \in 1..Len(b)}
            /\ before' = meta_file /\ files_before' = files
            /\ ops' = Append(ops, StoreOp("append", b[1].entry.youtube_url, {}))
            /\ IF ~IsList(LoadedValue(meta_file))
               THEN pc' = "raised" /\ meta_file' = meta_file
               ELSE pc' = "appended"
                    /\ meta_file' = update_metadata(meta_file, new_entries)
    /\ UNCHANGED <<src, source_type, start_ms, end_ms, processed_parts, wav_len,
                   motor_label, out_dir, prefix_base, part_start, part_end,
                   process_whole_video, start_index, seg_paths, ghosts, w_in, w_out,
                   ov_in, ov_out>>

\* delete_existing_entries(url); the unlinks of the files in failed raise
StoreDelete ==
    /\ runs < MaxOps
    /\ runs' = runs + 1
    /\ \E url \in {s \in Sources : is_url(s)} :
       \E failed \in SUBSET {f \in files : NameStartsWith(f.name, extract_youtube_id(url))} :
        /\ src' = url
        /\ before' = meta_file /\ files_before' = files
        /\ IF ~IsList(LoadedValue(meta_file))
           THEN /\ failed = {}
                /\ pc' = "raised"
                /\ ops' = Append(ops, StoreOp("delete", url, {}))
                /\ UNCHANGED <<meta_file, files>>
           ELSE LET after == delete_existing_entries(meta_file, files, url, failed)
                IN  /\ pc' = "deleted"
                    /\ ops' = Append(ops, StoreOp("delete", url, failed))
                    /\ meta_file' = after.meta_file
                    /\ files' = after.files
    /\ UNCHANGED <<source_type, start_ms, end_ms, processed_parts, wav_len,
                   motor_label, out_dir, prefix_base, part_start, part_end,
                   process_whole_video, start_index, seg_paths, entries, ghosts,
                   w_in, w_out, ov_in, ov_out>>

NextStore == StoreCheck \/ StoreAppend \/ StoreDelete

SpecStore == InitStore /\ [][NextStore]_vars

\* ======================= the claims =======================

Stored == safe_load_metadata(meta_file)

\* C1: no two clips on disk and no two records of the store share a filename,
\* whatever parts and runs used the prefix, also after clips were relocated
\* out of the scanned directory.
C1_NoSharedFilename ==
    /\ \A i \in 1..Len(Stored) : \A j \in 1..Len(Stored) :
          i # j => Stored[i].filename # Stored[j].filename
    /\ \A f \in files : \A g \in files : f.name = g.name => f = g

\* C2: the time ranges registered in processed_parts during one run are
\* pairwise non-overlapping (half-open intervals).
C2_PartsDisjoint ==
    \A i \in 1..Len(processed_parts) : \A j \in 1..Len(processed_parts) :
        i < j => \/ processed_parts[i][2] <= processed_parts[j][1]
                 \/ processed_parts[j][2] <= processed_parts[i][1]

\* every clip file is named by a record and every record names a clip file
Consistent ==
    /\ \A f \in files : \E i \in 1..Len(Stored) : Stored[i].filename = PyStr(f.name)
    /\ \A i \in 1..Len(Stored) : \E f \in files : Stored[i].filename = PyStr(f.name)

\* C3: a run that is aborted leaves the store and the output directory
\* consistent: no clip file without a record, no record without a clip file.
C3_AbortLeavesConsistent == pc = "aborted" => Consistent

\* the effective end of the range of a call of the windower
EffectiveEnd ==
    IF IsNone(w_in.end_ms) THEN w_in.audio_len
    ELSE Min(Val(w_in.end_ms), w_in.audio_len)

\* C4: under the program's configuration the windower emits clips at exactly
\* the starts s + k*STEP with start + SEG_LEN <= E, in increasing order, the
\* k-th clip carrying index start_index + k; a window ending exactly at E is
\* emitted.
C4_WindowsUpToEnd ==
    (pc = "windowed" /\ w_in.step = STEP) =>
        LET s == w_in.start_ms
            n == IF EffectiveEnd - s < SEG_LEN THEN 0
                 ELSE (EffectiveEnd - s - SEG_LEN) \div STEP + 1
        IN  /\ Len(w_out) = n
            /\ \A k \in 1..Len(w_out) :
                  /\ w_out[k].start = s + (k - 1) * STEP
                  /\ w_out[k].index = w_in.start_index + (k - 1)
                  /\ w_out[k].start + SEG_LEN <= EffectiveEnd

\* C5: with step = segment length, a range [start, end) within the recording
\* gives exactly floor((end - start) / step) clips of the full length, each
\* starting where the one before ends.
C5_NoOverlapTiling ==
    (/\ pc = "windowed"
     /\ w_in.step = w_in.seg_len
     /\ w_in.start_ms <= EffectiveEnd
     /\ (IsNone(w_in.end_ms) \/ Val(w_in.end_ms) <= w_in.audio_len)) =>
        /\ Len(w_out) = (EffectiveEnd - w_in.start_ms) \div w_in.step
        /\ \A k \in 1..Len(w_out) : w_out[k].end - w_out[k].start = w_in.seg_len
        /\ \A k \in 1..(Len(w_out) - 1) : w_out[k].end = w_out[k + 1].start

\* the positions of the records of data that are not records of url
KeptPositions(data, url) ==
    {i \in 1..Len(data) : data[i].source = PyStr("local") \/ data[i].youtube_url.v # url}

\* C6: after delete_existing_entries(url) on a parseable store, the store holds
\* exactly the earlier records whose source identifier differs from url, in
\* their original order, and no record of url.
C6_DeleteKeepsOthers ==
    (pc = "deleted" /\ before.kind # "corrupt") =>
        LET old == safe_load_metadata(before)
            kept == KeptPositions(old, src)
        IN  /\ Len(Stored) = Cardinality(kept)
            /\ \A i \in kept : Stored[Cardinality({k \in kept : k <= i})] = old[i]
            /\ \A i \in 1..Len(Stored) : Stored[i].youtube_url # PyStr(src)

\* C6 witness: a delete removed records and kept, in order, a record of
\* another URL and a local record.
C6_Witness ==
    /\ pc = "deleted"
    /\ before.kind = "array"
    /\ Len(safe_load_metadata(before)) > Len(Stored)
    /\ \E i \in 1..Len(Stored) : \E j \in 1..Len(Stored) :
          /\ i < j
          /\ Stored[i].source = PyStr("youtube")
          /\ Stored[j].source = PyStr("local")

\* C7: update_metadata(R) then safe_load_metadata() gives the earlier content
\* followed by R, in arrival order, every record with its keys as appended.
C7_AppendRoundTrip ==
    (pc = "appended" /\ before.kind # "corrupt") =>
        Stored = safe_load_metadata(before) \o entries

\* C7 witness: two records, one of them without a quality key and with null
\* values, were appended to a store that already held records.
C7_Witness ==
    /\ pc = "appended"
    /\ before.kind = "array"
    /\ Len(safe_load_metadata(before)) >= 1
    /\ Len(entries) = 2
    /\ \E i \in 1..2 : /\ "quality" \notin DOMAIN entries[i]
                       /\ entries[i].motor_label = PyNone
    /\ \E i \in 1..2 : "subtype" \notin DOMAIN entries[i]

\* C8: once the driver has declined to supply another range, no clip is cut
\* and no record is appended any more in that session.
C8_NoWindowingAfterDecline ==
    [][declined => (files' = files /\ meta_file' = meta_file)]_vars

\* C9: a range refused as overlapping has no effect (no clip, no record,
\* processed_parts unchanged, the session still awaits a range), and the range
\* windowed after a refusal is one the driver supplied.
C9_RefusedRangeDiscarded ==
    [][/\ (rejected' # rejected /\ rejected' # None) =>
            /\ files' = files /\ meta_file' = meta_file
            /\ processed_parts' = processed_parts
            /\ pc = "new_range" /\ pc' = "new_range"
       /\ (rejected # None /\ pc = "begin_part" /\ pc' \in {"label", "append"}) =>
            <<IF process_whole_video' THEN None ELSE Some(part_start'), part_end'>>
                \in supplied'
      ]_vars

\* the indices of the files that the prefix pattern of the run matches
MatchingIndices ==
    {i \in 0..(MaxIdx + 6) :
        \E f \in files : /\ f.dir = out_dir
                         /\ f.name.suffix = ".wav"
                         /\ Len(f.name.toks) > Len(prefix_base)
                         /\ \A k \in 1..Len(prefix_base) : f.name.toks[k] = prefix_base[k]
                         /\ f.name.toks[Len(f.name.toks)] = Format03d(i)}

\* C10: the next index is 0 when no file matches the prefix pattern, and
\* otherwise 1 + the largest existing index, whatever the gaps.
C10_NextIndexIsMaxPlusOne ==
    pc = "allocated" =>
        IF MatchingIndices = {} THEN start_index = 0
        ELSE /\ start_index - 1 \in MatchingIndices
             /\ \A i \in MatchingIndices : i < start_index

\* C10 witness: the directory holds the indices 0 and 2 only, and 3 is next.
C10_Witness ==
    /\ pc = "allocated"
    /\ MatchingIndices = {0, 2}
    /\ start_index = 3

\* C11: a file that the prefix pattern matches and whose index part is not a
\* number is ignored: the index computation always completes, and its result
\* is 0 or 1 + the largest index among the well-formed names.
C11_MalformedNamesIgnored ==
    pc \in {"allocated", "aborted"} =>
        /\ pc = "allocated"
        /\ start_index = IF MatchingIndices = {} THEN 0
                         ELSE SetMax(MatchingIndices) + 1

LastOp == ops[Len(ops)]

\* C13: whatever the store holds, safe_load_metadata returns a list, the empty
\* one unless the store holds a record array, and no caller (the
\* already-processed test, the append, the delete) raises.
C13_LoadFailsSoft ==
    ops # <<>> =>
        /\ pc # "raised"
        /\ IsList(LoadedValue(before))
        /\ before.kind # "array" => LoadedValue(before) = PyList(<<>>)

\* C14: a record written by the engine holds no null: the motor_label key is
\* there only for a drone record and the youtube_url key only for a remote
\* source.
C14_AbsentFieldsOmitted ==
    \A i \in 1..Len(entries) :
        LET e == entries[i]
        IN  /\ \A k \in DOMAIN e : e[k] # PyNone
            /\ "motor_label" \in DOMAIN e => e.binary_label = PyStr("drone")
            /\ "youtube_url" \in DOMAIN e => e.source = PyStr("youtube")

Vocabulary == {"airplanes", "birds", "cars", "crowd", "electronics", "motors",
               "random", "wind"}

QualityXorSubtype(e) ==
    IF e.binary_label = PyStr("drone")
    THEN /\ "quality" \in DOMAIN e
         /\ e.quality.t = "num" /\ e.quality.v \in 1..5
         /\ "subtype" \notin DOMAIN e
    ELSE /\ e.binary_label = PyStr("no_drone")
         /\ "subtype" \in DOMAIN e
         /\ e.subtype.t = "str" /\ e.subtype.v \in Vocabulary
         /\ "quality" \notin DOMAIN e

\* C15: every record of a batch and every record of the store is either a
\* drone record with a quality in 1..5 and no subtype key, or a no_drone record
\* with a subtype of the vocabulary and no quality key.
C15_QualityXorSubtype ==
    /\ \A i \in 1..Len(entries) : QualityXorSubtype(entries[i])
    /\ \A i \in 1..Len(Stored) : QualityXorSubtype(Stored[i])

\* C15 witness: a batch has been appended in which a no_drone clip follows a
\* drone clip and a drone clip follows a no_drone clip.
C15_Witness ==
    /\ pc = "done"
    /\ \E i \in 1..(Len(Stored) - 1) :
          /\ Stored[i].binary_label = PyStr("drone")
          /\ Stored[i + 1].binary_label = PyStr("no_drone")
          /\ Stored[i].youtube_url = Stored[i + 1].youtube_url
    /\ \E i \in 1..(Len(Stored) - 1) :
          /\ Stored[i].binary_label = PyStr("no_drone")
          /\ Stored[i + 1].binary_label = PyStr("drone")
          /\ Stored[i].youtube_url = Stored[i + 1].youtube_url

\* the name of f begins with the video id of url
BeginsWithId(f, url) == NameStartsWith(f.name, extract_youtube_id(url))

\* C16: delete_existing_entries on a loadable store completes whatever unlinks
\* fail: every matching file whose unlink did not fail is gone, no other file
\* is touched, and the store is rewritten without any record of the URL.
C16_DeleteContinuesPastFailures ==
    (ops # <<>> /\ LastOp.op = "delete" /\ IsList(LoadedValue(before))) =>
        /\ pc = "deleted"
        /\ \A f \in files_before :
              f \in files <=> (~BeginsWithId(f, LastOp.url) \/ f \in LastOp.failed)
        /\ files \subseteq files_before
        /\ meta_file.kind = "array"
        /\ \A i \in 1..Len(Stored) :
              Get(Stored[i], "youtube_url") # PyStr(LastOp.url)

\* C16 witness: a delete in which one unlink failed and another succeeded, on
\* a store that held records of the URL.
C16_Witness ==
    /\ ops # <<>> /\ LastOp.op = "delete" /\ pc = "deleted"
    /\ LastOp.failed # {}
    /\ \E f \in files_before : BeginsWithId(f, LastOp.url) /\ f \notin files
    /\ before.kind = "array"
    /\ has_source(safe_load_metadata(before), LastOp.url)

\* C17: a second delete_existing_entries(url) right after a first one that
\* cleared the source completes and changes neither the store nor the files.
C17_SecondDeleteIsNoOp ==
    (/\ Len(ops) >= 2
     /\ LastOp.op = "delete"
     /\ ops[Len(ops) - 1] = [op |-> "delete", url |-> LastOp.url, failed |-> {}]
     /\ before.kind = "array") =>
        /\ pc = "deleted"
        /\ LastOp.failed = {}
        /\ meta_file = before
        /\ files = files_before

\* C17 witness: records of a URL were appended, deleted, and deleted again;
\* records and files of another source were there all along.
C17_Witness ==
    /\ Len(ops) >= 3
    /\ pc = "deleted"
    /\ LastOp.op = "delete"
    /\ ops[Len(ops) - 1] = [op |-> "delete", url |-> LastOp.url, failed |-> {}]
    /\ ops[Len(ops) - 2].op = "append"
    /\ ops[Len(ops) - 2].url = PyStr(LastOp.url)
    /\ Len(Stored) >= 1 /\ files # {}

\* the directory that the labels of a record name
DirOfRecord(e) ==
    IF e.binary_label = PyStr("drone")
    THEN Append(BASE_OUT_DIR, e.motor_label.v)
    ELSE NotADrone(e.subtype.v)

\* C18: when a batch is completed, the clip of every drone record is under
\* audio/{motor_label} and the clip of every no_drone record under
\* audio/not_a_drone/{subtype}, with the values of the record.
C18_ClipsUnderLabelDir ==
    [][(pc = "append" /\ pc' # "aborted") =>
          \A i \in 1..Len(entries) :
              [dir |-> DirOfRecord(entries[i]), name |-> entries[i].filename.v]
                  \in files']_vars

\* every record of data names a file of fs
RecordsHaveFiles(data, fs) ==
    \A i \in 1..Len(data) : \E f \in fs : PyStr(f.name) = data[i].filename

\* C19: after a completed delete_existing_entries(url) every record left in
\* the store still names a file on disk, if that was so before.
C19_DeleteSparesOtherSources ==
    (/\ ops # <<>> /\ LastOp.op = "delete" /\ pc = "deleted"
     /\ RecordsHaveFiles(safe_load_metadata(before), files_before)) =>
        RecordsHaveFiles(Stored, files)

\* C20: a range taken for windowing has 0 <= start < end.
C20_AcceptedRangeIsValid ==
    (pc \in {"label", "append"} /\ ~process_whole_video) =>
        /\ 0 <= part_start
        /\ ~IsNone(part_end)
        /\ part_start < Val(part_end)

====
